---- MODULE Spec2Model ----
(***************************************************************************)
(* A model of src/main.py: the entry block that checks the two credentials,*)
(* main() and its helpers read_doc, chunk_data, setup_pinecone_index,      *)
(* retrieve_query and retrieve_answers, run as one or two invocations of   *)
(* the program against one remote vector-index account.                    *)
(*                                                                         *)
(* Every call that leaves the process (the PDF loader, the vector service, *)
(* the language-model service) is one atomic step that either succeeds or  *)
(* raises; what the remote index does on a successful call (delete removes *)
(* the index, create makes an empty one and refuses an existing name,      *)
(* upsert writes by identifier) is the environment the program runs in.    *)
(***************************************************************************)
EXTENDS Integers, Sequences, FiniteSets, TLC

(* ------------------------------ bounds -------------------------------- *)

\* The largest number of chunks a directory splits into (two full batches
\* and one more record).
MaxChunks == 101

\* The largest number of PDF pages a directory holds.
MaxPages == 2

\* Chunk texts repeat with this period, so that distinct positions can
\* carry the same text.
TextPeriod == 3

(* ------------------------- program constants -------------------------- *)

batch_size == 50

sleep_seconds == 10

top_k == 2

index_name == "lanchain"

required_vars == <<"GOOGLE_API_KEY", "PINECONE_API_KEY">>

category == "budget"

(* --------------------------- input domains ---------------------------- *)

\* The two invocations of the program that the model follows.
Runs == {"A", "B"}

\* An environment variable is not set, set to the empty string, or set to a
\* non-empty value.
EnvValues == {"unset", "empty", "set"}

\* Two document collections with different texts.
Variants == {"x", "y"}

Min(a, b) == IF a < b THEN a ELSE b

(* ----------------------- the entry block's check ---------------------- *)

\* A check that asks only whether the variable is set.
Truthy_EmptyCounts(val) == val # "unset"

\* os.environ.get(var) is falsy when the variable is unset or empty.
Truthy(val) == val = "set"

missing_vars(env) == SelectSeq(required_vars, LAMBDA var : ~Truthy(env[var]))

\* ', '.join(names)
RECURSIVE Join(_)
Join(names) ==
    IF names = <<>> THEN ""
    ELSE IF Len(names) = 1 THEN names[1]
    ELSE names[1] \o ", " \o Join(Tail(names))

MissingMessage(names) ==
    "Error: Missing required environment variables: " \o Join(names)

(* ------------------------------ loader -------------------------------- *)

\* The text of the k-th piece (0-based) of collection v.
PieceText(v, k) == v \o ToString(k % TextPeriod)

\* The first piece (0-based) of page p (1-based) of a directory of n pieces.
PageStart(d, p) == ((p - 1) * d.n) \div d.pages

\* What PyPDFDirectoryLoader(directory).load() returns for a readable
\* directory: one Document per page, in order.
Load(d) ==
    [p \in 1..d.pages |->
        [source |-> d.v \o ".pdf",
         page |-> p - 1,
         page_content |->
            [j \in 1..(PageStart(d, p + 1) - PageStart(d, p)) |->
                PieceText(d.v, PageStart(d, p) + j - 1)]]]

\* A main without the early return.
NoDocuments_Never(doc) == FALSE

\* `if not doc` in main.
NoDocuments(doc) == doc = <<>>

(* ------------------------------ chunker ------------------------------- *)

\* text_splitter.split_documents(docs): the chunks of each document, in the
\* order of the documents.
RECURSIVE split_documents(_)
split_documents(docs) ==
    IF docs = <<>> THEN <<>>
    ELSE [j \in 1..Len(docs[1].page_content) |->
             [source |-> docs[1].source,
              page |-> docs[1].page,
              page_content |-> docs[1].page_content[j]]]
         \o split_documents(Tail(docs))

chunk_data(docs) == IF docs = <<>> THEN <<>> ELSE split_documents(docs)

(* --------------------------- index records ---------------------------- *)

\* Identifiers counted from 1.
DocId_OneBased(pos) == "doc_" \o ToString(pos + 1)

\* f"doc_{i}"
DocId(pos) == "doc_" \o ToString(pos)

\* The comprehension over enumerate(documents).
RecordsOf(documents) ==
    [k \in 1..Len(documents) |->
        [_id |-> DocId(k - 1),
         chunk_text |-> documents[k].page_content,
         category |-> category]]

\* A slice that starts one record late.
Slice_DropsFirst(s, lo, hi) == SubSeq(s, lo + 2, Min(hi, Len(s)))

\* records[lo:hi] of Python: 0-based, hi exclusive, clamped to the length.
Slice(s, lo, hi) == SubSeq(s, lo + 1, Min(hi, Len(s)))

\* A loop that leaves out the last batch.
LoopContinues_StopsEarly(i, n) == i + batch_size < n

\* One more turn of `for i in range(0, len(records), batch_size)`.
LoopContinues(i, n) == i < n

\* A step one larger than the batch.
NextI_SkipsOne(i) == i + batch_size + 1

\* The loop variable's next value.
NextI(i) == i + batch_size

BatchMessage(i, batch) ==
    "Upserting batch " \o ToString((i \div batch_size) + 1)
        \o " with " \o ToString(Len(batch)) \o " records"

(* ------------------------ the remote service -------------------------- *)

\* The account is a function from the names of its indexes to their
\* contents; the contents of an index are <<namespace, record>> pairs.

\* pc.list_indexes().names()
ListedNames(account) == DOMAIN account

\* `index_name in pc.list_indexes().names()`
IndexListed(names) == index_name \in names

\* pc.delete_index(name)
DeleteIndex(account, name) == [nm \in (DOMAIN account) \ {name} |-> account[nm]]

\* pc.create_index_for_model(name=...): a fresh, empty index.
CreateIndex(account, name) ==
    [nm \in (DOMAIN account) \cup {name} |->
        IF nm = name THEN {} ELSE account[nm]]

Ids(batch) == {batch[k]._id : k \in 1..Len(batch)}

\* index.upsert_records(namespace, records): insert, or replace the record
\* of the same identifier in that namespace.
UpsertRecords(account, name, namespace, batch) ==
    [account EXCEPT ![name] =
        {e \in @ : ~(e[1] = namespace /\ e[2]._id \in Ids(batch))}
        \cup {<<namespace, batch[k]>> : k \in 1..Len(batch)}]

\* The records of one namespace of an index.
NamespaceRecords(account, name, namespace) ==
    {e[2] : e \in {x \in account[name] : x[1] = namespace}}

\* index.query(namespace, top_k): the k best records under the service's
\* own ranking, which the program does not see: some fixed order.
RECURSIVE TopHits(_, _)
TopHits(S, k) ==
    IF k = 0 \/ S = {} THEN <<>>
    ELSE LET best == CHOOSE rec \in S : TRUE
         IN  <<best>> \o TopHits(S \ {best}, k - 1)

(* ------------------------------ events -------------------------------- *)

Printed(text) == <<"print", text>>

Called(op, outcome, detail) == <<"call", op, outcome, detail>>

Raised(op) == <<"raise", op>>

FailureMessage == "Failed to initialize Pinecone or upsert data: "

GuidanceMessage ==
    "Please verify the API key and ensure the 'lanchain' index exists in the us-east-1 region."

\* The except clause of setup_pinecone_index: two prints and a bare raise.
HandlerEvents(op) ==
    <<Printed(FailureMessage \o op), Printed(GuidanceMessage), Raised(op)>>

\* A turn that prints after the call.
UpsertEvents_CallFirst(i, batch, outcome) ==
    <<Called("upsert_records", outcome, batch), Printed(BatchMessage(i, batch))>>

\* One turn of the upsert loop: the print, then the call.
UpsertEvents(i, batch, outcome) ==
    <<Printed(BatchMessage(i, batch)), Called("upsert_records", outcome, batch)>>

(* --------------------------- control flow ----------------------------- *)

\* A reset that creates right after the delete.
AfterDelete_NoWait == "create"

\* The statement after pc.delete_index(index_name): time.sleep(10).
AfterDelete == "sleep_delete"

\* The statement after pc.create_index_for_model(...): time.sleep(10).
AfterCreate == "sleep_create"

\* An except clause that does not re-raise: main goes on.
AfterSetupFailure_Swallowed == "llm"

\* Where a run is after the except clause re-raised through main.
AfterSetupFailure == "crashed"

\* The statement after retrieve_query returned in retrieve_answers.
AfterQuery == "generate"

\* A main that asks again after the answer.
AfterGenerate_Loops == "query"

\* Where a run is after chain.invoke returned and main printed the answer.
AfterGenerate == "done"

SetupPcs ==
    {"client", "list", "delete", "sleep_delete", "create", "sleep_create",
     "open", "loop", "stats"}

Terminated == {"exited", "done", "crashed"}

\* The stage of the pipeline a run is in, by the statement it is at.
StageOf(p) ==
    CASE p \in {"start", "exited"} -> "Idle"
      [] p = "read" -> "Loading"
      [] p = "chunk" -> "Chunking"
      [] p \in SetupPcs -> "IndexBuilding"
      [] p \in {"llm", "query"} -> "Querying"
      [] p = "generate" -> "Generating"
      [] p = "done" -> "Done"
      [] p = "crashed" -> "Aborted"

(* ------------------------------- state -------------------------------- *)

VARIABLES
    invoked,     \* the invocations of the program that take place
    concurrent,  \* whether an invocation may start while another is running
    environ,     \* per run: the process environment
    directory,   \* per run: the directory the loader reads
    prior,       \* the vector service's account before any invocation
    remote,      \* the vector service's account
    proc,        \* per run: the statement it is at and its variables
    trace,       \* per run: what it printed, called and raised, in order
    stages,      \* per run: the stages it has been in, in order
    atReturn     \* per run: the account as setup_pinecone_index returned

vars ==
    <<invoked, concurrent, environ, directory, prior, remote, proc, trace,
      stages, atReturn>>

inputs == <<invoked, concurrent, environ, directory, prior>>

InitialProc ==
    [pc |-> "start", doc |-> <<>>, documents |-> <<>>, records |-> <<>>,
     i |-> 0, index |-> "None", chain |-> "None", doc_search |-> <<>>,
     answer |-> <<>>, exitCode |-> -1]

NotReturned == [returned |-> FALSE, account |-> <<>>]

Directories ==
    {[readable |-> TRUE, pages |-> 0, n |-> 0, v |-> "x"],
     [readable |-> FALSE, pages |-> 1, n |-> 1, v |-> "x"]}
    \cup {[readable |-> TRUE, pages |-> p, n |-> n, v |-> v] :
            p \in 1..MaxPages, n \in 0..MaxChunks, v \in Variants}

Environments == [{required_vars[k] : k \in 1..Len(required_vars)} -> EnvValues]

AllSet == [var \in {required_vars[k] : k \in 1..Len(required_vars)} |-> "set"]

\* What an earlier build of m chunks of collection v left in the index.
BuiltContents(v, m) ==
    LET d == [readable |-> TRUE, pages |-> 1, n |-> m, v |-> v]
        recs == RecordsOf(chunk_data(Load(d)))
    IN  {<<"default", recs[k]>> : k \in 1..Len(recs)}

Stray == <<"archive", [_id |-> DocId(0), chunk_text |-> "z", category |-> category]>>

\* The accounts a single invocation may find: no index of the name, an
\* index of another name only, or the named index with what earlier builds
\* and other writers left in it.
PriorAccounts ==
    {<<>>, [nm \in {"other"} |-> {Stray}]}
    \cup {[nm \in {index_name} |-> c] :
            c \in {{}, {Stray}} \cup
                  {BuiltContents(v, m) \cup s :
                      v \in Variants, m \in {1, MaxChunks}, s \in {{}, {Stray}}}}

TypeInit ==
    /\ proc = [r \in Runs |-> InitialProc]
    /\ trace = [r \in Runs |-> <<>>]
    /\ stages = [r \in Runs |-> <<"Idle">>]
    /\ atReturn = [r \in Runs |-> NotReturned]

\* One invocation, any environment, any directory, any prior account.
Init ==
    /\ invoked = {"A"}
    /\ concurrent = FALSE
    /\ environ \in [Runs -> Environments]
    /\ environ["B"] = AllSet
    /\ directory \in [Runs -> Directories]
    /\ directory["B"] = [readable |-> TRUE, pages |-> 0, n |-> 0, v |-> "x"]
    /\ prior \in PriorAccounts
    /\ remote = prior
    /\ TypeInit

(* ------------------------------ actions ------------------------------- *)

Emit(r, events) == trace' = [trace EXCEPT ![r] = @ \o events]

\* The stage history follows the statement a run is at.
Track ==
    stages' =
        [q \in Runs |->
            IF StageOf(proc'[q].pc) # StageOf(proc[q].pc)
            THEN Append(stages[q], StageOf(proc'[q].pc))
            ELSE stages[q]]

\* A statement inside the try block of setup_pinecone_index raised: the
\* except clause reports and re-raises, and main lets the exception go.
SetupFails(r, op, events) ==
    /\ proc' = [proc EXCEPT ![r].pc = AfterSetupFailure,
                            ![r].exitCode =
                                IF AfterSetupFailure = "crashed" THEN 1 ELSE @]
    /\ Emit(r, events \o HandlerEvents(op))
    /\ UNCHANGED <<remote, atReturn>>

\* A statement of main outside any try block raised.
Uncaught(r, op, events) ==
    /\ proc' = [proc EXCEPT ![r].pc = "crashed", ![r].exitCode = 1]
    /\ Emit(r, events \o <<Raised(op)>>)
    /\ UNCHANGED <<remote, atReturn>>

\* An invocation starts at once, or only when no other one is running.
MayStart(r) ==
    /\ r \in invoked
    /\ concurrent \/ \A q \in Runs \ {r} : proc[q].pc \in {"start"} \cup Terminated

\* The entry block: the credential check, then exit(1) or main().
CheckEnv(r) ==
    /\ proc[r].pc = "start"
    /\ MayStart(r)
    /\ LET missing == missing_vars(environ[r])
       IN  IF missing # <<>>
           THEN /\ proc' = [proc EXCEPT ![r].pc = "exited", ![r].exitCode = 1]
                /\ Emit(r, <<Printed(MissingMessage(missing)),
                             Printed("Please create a .env file with your API keys.")>>)
           ELSE /\ proc' = [proc EXCEPT ![r].pc = "read"]
                /\ Emit(r, <<<<"enter", "main">>, Printed("Loading documents...")>>)
    /\ UNCHANGED <<inputs, remote, atReturn>>
    /\ Track

\* read_doc, and main's return on an empty result.
ReadDoc(r) ==
    /\ proc[r].pc = "read"
    /\ LET d == directory[r]
           doc == IF d.readable THEN Load(d) ELSE <<>>
           loaded ==
               IF ~d.readable
               THEN <<Called("load", "error", 0),
                      Printed("Error loading documents from directory")>>
               ELSE <<Called("load", "ok", Len(doc))>>
                    \o (IF doc = <<>>
                        THEN <<Printed("No PDF files found in directory")>>
                        ELSE <<>>)
           counted ==
               <<Printed("Number of documents loaded: " \o ToString(Len(doc)))>>
       IN  IF NoDocuments(doc)
           THEN /\ proc' = [proc EXCEPT ![r].pc = "done", ![r].doc = doc,
                                        ![r].exitCode = 0]
                /\ Emit(r, loaded \o counted \o
                        <<Printed("No documents found. Please check the directory path.")>>)
           ELSE /\ proc' = [proc EXCEPT ![r].pc = "chunk", ![r].doc = doc]
                /\ Emit(r, loaded \o counted \o <<Printed("Chunking documents...")>>)
    /\ UNCHANGED <<inputs, remote, atReturn>>
    /\ Track

\* chunk_data, and main's prints around it.
ChunkData(r) ==
    /\ proc[r].pc = "chunk"
    /\ LET documents == chunk_data(proc[r].doc)
       IN  /\ proc' = [proc EXCEPT ![r].pc = "client", ![r].documents = documents]
           /\ Emit(r, (IF proc[r].doc = <<>>
                       THEN <<Printed("No documents to chunk.")>> ELSE <<>>)
                      \o <<Printed("Number of documents after chunking: "
                                   \o ToString(Len(documents))),
                           Printed("Setting up Pinecone index...")>>)
    /\ UNCHANGED <<inputs, remote, atReturn>>
    /\ Track

\* pc = Pinecone(api_key=os.environ["PINECONE_API_KEY"])
Client(r) ==
    /\ proc[r].pc = "client"
    /\ \E ok \in BOOLEAN :
        IF ok
        THEN /\ proc' = [proc EXCEPT ![r].pc = "list"]
             /\ Emit(r, <<Called("Pinecone", "ok", 0)>>)
             /\ UNCHANGED <<remote, atReturn>>
        ELSE SetupFails(r, "Pinecone", <<Called("Pinecone", "error", 0)>>)
    /\ UNCHANGED inputs
    /\ Track

\* if index_name in pc.list_indexes().names():
ListIndexes(r) ==
    /\ proc[r].pc = "list"
    /\ \E ok \in BOOLEAN :
        IF ok
        THEN LET names == ListedNames(remote)
             IN  /\ proc' = [proc EXCEPT ![r].pc =
                                IF IndexListed(names) THEN "delete" ELSE "create"]
                 /\ Emit(r, <<Called("list_indexes", "ok", names)>>
                            \o (IF IndexListed(names)
                                THEN <<Printed("Deleting existing index 'lanchain'...")>>
                                ELSE <<>>))
                 /\ UNCHANGED <<remote, atReturn>>
        ELSE SetupFails(r, "list_indexes", <<Called("list_indexes", "error", {})>>)
    /\ UNCHANGED inputs
    /\ Track

\* pc.delete_index(index_name); the service refuses a name it does not hold.
Delete(r) ==
    /\ proc[r].pc = "delete"
    /\ \E ok \in BOOLEAN :
        IF ok /\ index_name \in DOMAIN remote
        THEN /\ remote' = DeleteIndex(remote, index_name)
             /\ proc' = [proc EXCEPT ![r].pc = AfterDelete]
             /\ Emit(r, <<Called("delete_index", "ok", index_name)>>)
             /\ UNCHANGED atReturn
        ELSE SetupFails(r, "delete_index", <<Called("delete_index", "error", index_name)>>)
    /\ UNCHANGED inputs
    /\ Track

\* time.sleep(10)  # Wait for deletion
SleepAfterDelete(r) ==
    /\ proc[r].pc = "sleep_delete"
    /\ proc' = [proc EXCEPT ![r].pc = "create"]
    /\ Emit(r, <<Called("sleep", "ok", sleep_seconds)>>)
    /\ UNCHANGED <<inputs, remote, atReturn>>
    /\ Track

\* pc.create_index_for_model(...); the service refuses a name it holds.
Create(r) ==
    /\ proc[r].pc = "create"
    /\ \E ok \in BOOLEAN :
        LET announced == <<Printed("Creating index 'lanchain' with integrated embedding...")>>
        IN  IF ok /\ index_name \notin DOMAIN remote
            THEN /\ remote' = CreateIndex(remote, index_name)
                 /\ proc' = [proc EXCEPT ![r].pc = AfterCreate]
                 /\ Emit(r, announced \o <<Called("create_index_for_model", "ok", index_name)>>)
                 /\ UNCHANGED atReturn
            ELSE SetupFails(r, "create_index_for_model",
                     announced \o <<Called("create_index_for_model", "error", index_name)>>)
    /\ UNCHANGED inputs
    /\ Track

\* time.sleep(10)  # Wait for index creation
SleepAfterCreate(r) ==
    /\ proc[r].pc = "sleep_create"
    /\ proc' = [proc EXCEPT ![r].pc = "open"]
    /\ Emit(r, <<Called("sleep", "ok", sleep_seconds)>>)
    /\ UNCHANGED <<inputs, remote, atReturn>>
    /\ Track

\* index = pc.Index(index_name), then the records comprehension.
OpenIndex(r) ==
    /\ proc[r].pc = "open"
    /\ \E ok \in BOOLEAN :
        IF ok /\ index_name \in DOMAIN remote
        THEN /\ proc' = [proc EXCEPT ![r].pc = "loop",
                                     ![r].records = RecordsOf(proc[r].documents),
                                     ![r].i = 0]
             /\ Emit(r, <<Called("Index", "ok", index_name)>>)
             /\ UNCHANGED <<remote, atReturn>>
        ELSE SetupFails(r, "Index", <<Called("Index", "error", index_name)>>)
    /\ UNCHANGED inputs
    /\ Track

\* One turn of the upsert loop.
Upsert(r) ==
    /\ proc[r].pc = "loop"
    /\ LoopContinues(proc[r].i, Len(proc[r].records))
    /\ LET i == proc[r].i
           batch == Slice(proc[r].records, i, i + batch_size)
       IN  \E ok \in BOOLEAN :
            IF ok /\ index_name \in DOMAIN remote
            THEN /\ remote' = UpsertRecords(remote, index_name, "default", batch)
                 /\ proc' = [proc EXCEPT ![r].i = NextI(i)]
                 /\ Emit(r, UpsertEvents(i, batch, "ok"))
                 /\ UNCHANGED atReturn
            ELSE SetupFails(r, "upsert_records", UpsertEvents(i, batch, "error"))
    /\ UNCHANGED inputs
    /\ Track

\* The loop is over.
UpsertDone(r) ==
    /\ proc[r].pc = "loop"
    /\ ~LoopContinues(proc[r].i, Len(proc[r].records))
    /\ proc' = [proc EXCEPT ![r].pc = "stats"]
    /\ Emit(r, <<Printed("Upserted " \o ToString(Len(proc[r].documents))
                         \o " documents into index 'lanchain'.")>>)
    /\ UNCHANGED <<inputs, remote, atReturn>>
    /\ Track

\* stats = index.describe_index_stats(); return index; back in main.
Stats(r) ==
    /\ proc[r].pc = "stats"
    /\ \E ok \in BOOLEAN :
        IF ok /\ index_name \in DOMAIN remote
        THEN /\ proc' = [proc EXCEPT ![r].pc = "llm", ![r].index = index_name]
             /\ atReturn' = [atReturn EXCEPT ![r] =
                                [returned |-> TRUE, account |-> remote]]
             /\ Emit(r, <<Called("describe_index_stats", "ok", 0),
                          Printed("Index stats: "
                                  \o ToString(Cardinality(remote[index_name]))),
                          Printed("Initializing LLM and QA chain...")>>)
             /\ UNCHANGED remote
        ELSE SetupFails(r, "describe_index_stats",
                 <<Called("describe_index_stats", "error", 0)>>)
    /\ UNCHANGED inputs
    /\ Track

\* llm = ChatGoogleGenerativeAI(...); chain = create_stuff_documents_chain(...)
InitLLM(r) ==
    /\ proc[r].pc = "llm"
    /\ \E ok \in BOOLEAN :
        IF ok
        THEN /\ proc' = [proc EXCEPT ![r].pc = "query", ![r].chain = "chain"]
             /\ Emit(r, <<Called("init_llm", "ok", 0), Printed("Processing query")>>)
             /\ UNCHANGED <<remote, atReturn>>
        ELSE Uncaught(r, "init_llm", <<Called("init_llm", "error", 0)>>)
    /\ UNCHANGED inputs
    /\ Track

\* doc_search = retrieve_query(query), in retrieve_answers.
Query(r) ==
    /\ proc[r].pc = "query"
    /\ \E ok \in BOOLEAN :
        IF ok /\ proc[r].index \in DOMAIN remote
        THEN LET hits == TopHits(NamespaceRecords(remote, proc[r].index, "default"), top_k)
             IN  /\ proc' = [proc EXCEPT ![r].pc = AfterQuery, ![r].doc_search = hits]
                 /\ Emit(r, <<Called("query", "ok", top_k), Printed("Retrieved documents")>>)
                 /\ UNCHANGED <<remote, atReturn>>
        ELSE Uncaught(r, "query", <<Called("query", "error", top_k)>>)
    /\ UNCHANGED inputs
    /\ Track

\* response = chain.invoke(...), the return to main and its last print.
Generate(r) ==
    /\ proc[r].pc = "generate"
    /\ \E ok \in BOOLEAN :
        IF ok
        THEN /\ proc' = [proc EXCEPT ![r].pc = AfterGenerate,
                                     ![r].answer = <<"answer", proc[r].doc_search>>,
                                     ![r].exitCode =
                                         IF AfterGenerate = "done" THEN 0 ELSE @]
             /\ Emit(r, <<Called("invoke", "ok", Len(proc[r].doc_search)),
                          Printed("Answer")>>)
             /\ UNCHANGED <<remote, atReturn>>
        ELSE Uncaught(r, "invoke", <<Called("invoke", "error", Len(proc[r].doc_search))>>)
    /\ UNCHANGED inputs
    /\ Track

Next ==
    \E r \in Runs :
        \/ CheckEnv(r)
        \/ ReadDoc(r)
        \/ ChunkData(r)
        \/ Client(r)
        \/ ListIndexes(r)
        \/ Delete(r)
        \/ SleepAfterDelete(r)
        \/ Create(r)
        \/ SleepAfterCreate(r)
        \/ OpenIndex(r)
        \/ Upsert(r)
        \/ UpsertDone(r)
        \/ Stats(r)
        \/ InitLLM(r)
        \/ Query(r)
        \/ Generate(r)

Spec == Init /\ [][Next]_vars

\* The directories of the two-invocation runs: one page that splits into no
\* chunk, one chunk, or one chunk more than a batch.
RunDirectories ==
    {d \in Directories :
        d.readable /\ d.pages = 1 /\ d.n \in {0, 1, batch_size + 1}}

\* Two invocations with both credentials set, one after the other or
\* overlapping, against an account that holds no index yet.
InitRuns ==
    /\ invoked = Runs
    /\ concurrent \in BOOLEAN
    /\ environ = [r \in Runs |-> AllSet]
    /\ directory \in [Runs -> RunDirectories]
    /\ prior = <<>>
    /\ remote = prior
    /\ TypeInit

SpecRuns == InitRuns /\ [][Next]_vars

(* ------------------------ reading the history ------------------------- *)

\* The calls a run made, in order, as <<"call", op, outcome, detail>>.
CallsOf(r) == SelectSeq(trace[r], LAMBDA e : e[1] = "call")

\* The upsert calls a run made, in order.
UpsertsOf(r) == SelectSeq(CallsOf(r), LAMBDA e : e[2] = "upsert_records")

RECURSIVE Concat(_)
Concat(ss) == IF ss = <<>> THEN <<>> ELSE ss[1] \o Concat(Tail(ss))

\* The batches a run handed to upsert_records, in order.
BatchesOf(r) == [k \in 1..Len(UpsertsOf(r)) |-> UpsertsOf(r)[k][4]]

\* The least m with b * m >= n.
Ceil(n, b) == CHOOSE m \in 0..n : b * m >= n /\ (m = 0 \/ b * (m - 1) < n)

\* Decimal notation, digit by digit.
Digit == <<"0", "1", "2", "3", "4", "5", "6", "7", "8", "9">>

RECURSIVE Decimal(_)
Decimal(n) ==
    IF n < 10 THEN Digit[n + 1] ELSE Decimal(n \div 10) \o Digit[(n % 10) + 1]

\* The upsert loop of run r ran to its end.
LoopFinished(r) ==
    \/ proc[r].pc = "stats"
    \/ \E k \in 1..Len(CallsOf(r)) : CallsOf(r)[k][2] = "describe_index_stats"

\* The loader gave run r no documents.
EmptyInput(r) == ~directory[r].readable \/ directory[r].pages = 0

(* ------------------------------ claims -------------------------------- *)

\* C1: when the loader yields no documents (no PDF in the directory, or an
\* I/O failure that read_doc turned into an empty list), the run ends in
\* main's early return: its only call is the load, it never reaches the
\* chunker, the index build, the query or the generation, and the account is
\* as it was.
C1_EmptyInputNoRemoteWork ==
    /\ \A r \in invoked :
        EmptyInput(r) =>
            /\ proc[r].pc \in {"start", "exited", "read", "done"}
            /\ \A k \in 1..Len(CallsOf(r)) : CallsOf(r)[k][2] = "load"
    /\ (\A r \in invoked : EmptyInput(r)) => remote = prior

\* C1 witness: an unreadable directory, and the run has returned.
C1_Witness ==
    /\ ~directory["A"].readable
    /\ proc["A"].pc = "done"
    /\ proc["A"].exitCode = 0
    /\ Len(CallsOf("A")) = 1

\* A credential the entry block counts as missing.
IsMissing(r, var) == environ[r][var] \in {"unset", "empty"}

\* The names the message is to list, case by case.
ExpectedNames(r) ==
    CASE IsMissing(r, "GOOGLE_API_KEY") /\ IsMissing(r, "PINECONE_API_KEY")
            -> "GOOGLE_API_KEY, PINECONE_API_KEY"
      [] IsMissing(r, "GOOGLE_API_KEY") /\ ~IsMissing(r, "PINECONE_API_KEY")
            -> "GOOGLE_API_KEY"
      [] ~IsMissing(r, "GOOGLE_API_KEY") /\ IsMissing(r, "PINECONE_API_KEY")
            -> "PINECONE_API_KEY"
      [] OTHER -> ""

MainEntries(r) == Len(SelectSeq(trace[r], LAMBDA e : e = <<"enter", "main">>))

C3_BatchesPartitionRecords ==
    \A r \in Runs :
        LET batches == BatchesOf(r)
            all == Concat(batches)
            n == Len(proc[r].records)
        IN  /\ \A k \in 1..Len(batches) :
                Len(batches[k]) >= 1 /\ Len(batches[k]) <= batch_size
            /\ Len(all) <= n
            /\ all = SubSeq(proc[r].records, 1, Len(all))
            /\ LoopFinished(r) =>
                /\ Len(batches) = Ceil(n, batch_size)
                /\ all = proc[r].records

\* C3 witness: the loop finished over more than two batches' worth of
\* records, the last batch being short.
C3_Witness ==
    /\ LoopFinished("A")
    /\ Len(proc["A"].records) > 2 * batch_size
    /\ Len(proc["A"].records) % batch_size # 0
    /\ Len(BatchesOf("A")) = 3

\* C4: the records of a build are as many as its chunks; the record of the
\* chunk at position i (from 0) has identifier doc_i, the constant category
\* label and that chunk's text; no two records share an identifier.
C4_PositionalIdentifiers ==
    \A r \in Runs :
        LET recs == proc[r].records
            docs == proc[r].documents
        IN  recs # <<>> =>
                /\ Len(recs) = Len(docs)
                /\ \A k \in 1..Len(recs) :
                    /\ recs[k]._id = "doc_" \o Decimal(k - 1)
                    /\ recs[k].category = "budget"
                    /\ recs[k].chunk_text = docs[k].page_content
                /\ Cardinality({recs[k]._id : k \in 1..Len(recs)}) = Len(recs)

\* C4 witness: a build of more than a batch of chunks, two of which carry
\* the same text.
C4_Witness ==
    /\ Len(proc["A"].records) > batch_size
    /\ proc["A"].records[1].chunk_text = proc["A"].records[1 + TextPeriod].chunk_text
    /\ proc["A"].records[1]._id # proc["A"].records[1 + TextPeriod]._id

\* Call k of run r is op, and it returned.
Returned(r, k, op) == CallsOf(r)[k][2] = op /\ CallsOf(r)[k][3] = "ok"

\* C5: in the calls of a run, a delete comes right after a listing that
\* named the index; a delete that returned is followed by the settle wait; a
\* create comes right after that wait, or right after a listing that did not
\* name the index; a create that returned is followed by a settle wait; and
\* every upsert comes after a create that returned and its settle wait.
C5_BuildOrder ==
    \A r \in invoked :
        LET calls == CallsOf(r)
        IN  \A k \in 1..Len(calls) :
              /\ calls[k][2] = "delete_index" =>
                    /\ k > 1
                    /\ Returned(r, k - 1, "list_indexes")
                    /\ index_name \in calls[k - 1][4]
              /\ (Returned(r, k, "delete_index") /\ k < Len(calls)) =>
                    calls[k + 1][2] = "sleep"
              /\ calls[k][2] = "create_index_for_model" =>
                    /\ k > 1
                    /\ \/ /\ Returned(r, k - 1, "list_indexes")
                          /\ index_name \notin calls[k - 1][4]
                       \/ /\ k > 2
                          /\ Returned(r, k - 1, "sleep")
                          /\ Returned(r, k - 2, "delete_index")
              /\ (Returned(r, k, "create_index_for_model") /\ k < Len(calls)) =>
                    calls[k + 1][2] = "sleep"
              /\ calls[k][2] = "upsert_records" =>
                    \E j \in 1..(k - 2) :
                        /\ Returned(r, j, "create_index_for_model")
                        /\ Returned(r, j + 1, "sleep")

\* C5 witness: a run that deleted the listed index, created it anew and has
\* upserted a batch.
C5_Witness ==
    /\ \E k \in 1..Len(CallsOf("A")) : Returned("A", k, "delete_index")
    /\ \E k \in 1..Len(CallsOf("A")) : Returned("A", k, "upsert_records")

SetupOps ==
    {"Pinecone", "list_indexes", "delete_index", "create_index_for_model",
     "Index", "upsert_records", "describe_index_stats"}

\* Event k of run r is a call of setup_pinecone_index that raised.
SetupFailureAt(r, k) ==
    /\ trace[r][k][1] = "call"
    /\ trace[r][k][2] \in SetupOps
    /\ trace[r][k][3] = "error"

\* C6: once a call of setup_pinecone_index has raised, the run has printed
\* the failure and the remediation guidance, re-raised, and stopped: nothing
\* follows in its history, the process has ended with a non-zero code, no
\* generator was initialised and no query or generation call was made.
C6_SetupFailureIsFatal ==
    \A r \in invoked :
        \A k \in 1..Len(trace[r]) :
            SetupFailureAt(r, k) =>
                /\ SubSeq(trace[r], k + 1, Len(trace[r])) =
                     <<Printed("Failed to initialize Pinecone or upsert data: "
                               \o trace[r][k][2]),
                       Printed(GuidanceMessage),
                       Raised(trace[r][k][2])>>
                /\ proc[r].pc = "crashed"
                /\ proc[r].exitCode = 1
                /\ proc[r].chain = "None"
                /\ proc[r].index = "None"
                /\ ~atReturn[r].returned
                /\ \A j \in 1..Len(CallsOf(r)) :
                     CallsOf(r)[j][2] \notin {"init_llm", "query", "invoke"}

\* C6 witness: the second upsert batch raised, after the first was written.
C6_Witness ==
    /\ proc["A"].pc = "crashed"
    /\ proc["A"].i = batch_size
    /\ SetupFailureAt("A", Len(trace["A"]) - 3)
    /\ trace["A"][Len(trace["A"]) - 3][2] = "upsert_records"

Linear ==
    <<"Idle", "Loading", "Chunking", "IndexBuilding", "Querying", "Generating",
      "Done">>

Prefixes(s) == {SubSeq(s, 1, k) : k \in 1..Len(s)}

EarlyExit == <<"Idle", "Loading", "Done">>

\* The linear sequence up to the stage `from`, then Aborted.
AbortedFrom(from) ==
    {Append(p, "Aborted") : p \in {q \in Prefixes(Linear) : q[Len(q)] = from}}

\* C7 as stated: the stages of a run are a prefix of the linear sequence,
\* or the early exit, or the linear sequence up to IndexBuilding and then
\* Aborted.
C7_AbortOnlyFromIndexBuilding ==
    \A r \in invoked :
        stages[r] \in Prefixes(Linear) \cup {EarlyExit} \cup AbortedFrom("IndexBuilding")

\* C7 as amended: the stages of a run are a prefix of the linear sequence,
\* or the early exit from Loading, or the linear sequence up to
\* IndexBuilding, Querying or Generating and then Aborted; a run that has
\* ended is in Done or Aborted, or never entered main.
C7_LinearStages ==
    \A r \in invoked :
        /\ stages[r] \in Prefixes(Linear) \cup {EarlyExit}
                         \cup AbortedFrom("IndexBuilding")
                         \cup AbortedFrom("Querying")
                         \cup AbortedFrom("Generating")
        /\ stages[r][Len(stages[r])] = StageOf(proc[r].pc)
        /\ proc[r].pc \in Terminated =>
              \/ stages[r][Len(stages[r])] \in {"Done", "Aborted"}
              \/ proc[r].pc = "exited" /\ stages[r] = <<"Idle">>
        /\ stages[r] = EarlyExit <=> (proc[r].pc = "done" /\ proc[r].doc = <<>>)

\* C7 witness: the build returned, and the run aborted from Querying on a
\* failure main does not catch.
C7_Witness ==
    /\ stages["A"] =
        <<"Idle", "Loading", "Chunking", "IndexBuilding", "Querying", "Aborted">>
    /\ atReturn["A"].returned
    /\ proc["A"].exitCode = 1

\* The index contents a build of run r's chunks is to leave.
OwnContents(r) ==
    {<<"default", [_id |-> "doc_" \o Decimal(k - 1),
                   chunk_text |-> proc[r].documents[k].page_content,
                   category |-> "budget"]>> : k \in 1..Len(proc[r].documents)}

\* setup_pinecone_index of run r returned with the named index holding
\* something other than run r's own records.
BuildSpoiled(r) ==
    /\ atReturn[r].returned
    /\ atReturn[r].account[index_name] # OwnContents(r)

\* C8: a build returns with the index not holding exactly its own records
\* only when invocations overlap; when one starts after the other has ended,
\* every build that returns leaves exactly its own records.
C8_SpoiledOnlyWhenConcurrent ==
    \A r \in invoked : BuildSpoiled(r) => concurrent

\* C8 witness: two overlapping invocations, each with chunks, and one's
\* build has returned with the index not holding exactly its own records.
C8_Witness ==
    /\ concurrent
    /\ \A r \in Runs : Len(proc[r].documents) > 0
    /\ \E r \in Runs : BuildSpoiled(r)

\* C9: when setup_pinecone_index returns, the named index holds exactly the
\* n records doc_0 ... doc_{n-1} of this build in the default namespace and
\* nothing else, whatever the account held before; the other indexes of the
\* account are as they were.
C9_ResetLeavesOwnRecords ==
    \A r \in invoked :
        atReturn[r].returned =>
            /\ index_name \in DOMAIN atReturn[r].account
            /\ atReturn[r].account[index_name] = OwnContents(r)
            /\ Cardinality(atReturn[r].account[index_name]) = Len(proc[r].documents)
            /\ \A nm \in (DOMAIN prior) \ {index_name} :
                 /\ nm \in DOMAIN atReturn[r].account
                 /\ atReturn[r].account[nm] = prior[nm]

\* C9 witness: the index held a longer earlier build and a record of
\* another namespace, and a build of one chunk returned.
C9_Witness ==
    /\ index_name \in DOMAIN prior
    /\ Cardinality(prior[index_name]) = MaxChunks + 1
    /\ atReturn["A"].returned
    /\ Len(proc["A"].documents) = 1

\* The records of the first j batches of run r, as index contents.
Written(r, j) ==
    {<<"default", proc[r].records[k]>> :
        k \in 1..Min(j * batch_size, Len(proc[r].records))}

\* The upsert calls of run r that returned.
Accepted(r) == Len(SelectSeq(UpsertsOf(r), LAMBDA e : e[3] = "ok"))

\* C10: from the opening of the index on, the index holds exactly the
\* records of the batches accepted so far, a prefix of the batch sequence;
\* the k-th upsert call carries the k-th batch; only the last upsert call can
\* have raised, and then the run has stopped with the earlier batches still
\* in the index; and the event just before each upsert call is the print of
\* that batch's number and size.
C10_PrefixOfBatches ==
    \A r \in invoked :
        LET ups == UpsertsOf(r)
            n == Len(proc[r].records)
        IN  /\ \A k \in 1..Len(ups) :
                /\ ups[k][4] = SubSeq(proc[r].records, (k - 1) * batch_size + 1,
                                      Min(k * batch_size, n))
                /\ ups[k][3] = "error" =>
                      /\ k = Len(ups)
                      /\ proc[r].pc = "crashed"
                      /\ Accepted(r) = k - 1
            /\ (Len(ups) > 0 \/ proc[r].pc \in {"loop", "stats"}) =>
                /\ index_name \in DOMAIN remote
                /\ remote[index_name] = Written(r, Accepted(r))
            /\ \A e \in 1..Len(trace[r]) :
                (trace[r][e][1] = "call" /\ trace[r][e][2] = "upsert_records") =>
                    LET k == Len(SelectSeq(SubSeq(trace[r], 1, e),
                                 LAMBDA x : x[1] = "call" /\ x[2] = "upsert_records"))
                    IN  /\ e > 1
                        /\ trace[r][e - 1] =
                             Printed("Upserting batch " \o Decimal(k) \o " with "
                                     \o Decimal(Len(trace[r][e][4])) \o " records")

\* C10 witness: the third batch raised; the first two stay in the index.
C10_Witness ==
    /\ proc["A"].pc = "crashed"
    /\ Len(UpsertsOf("A")) = 3
    /\ UpsertsOf("A")[3][3] = "error"
    /\ index_name \in DOMAIN remote
    /\ Cardinality(remote[index_name]) = 2 * batch_size
    /\ index_name \in DOMAIN prior

====
